---- MODULE Spec2Model ----
(***************************************************************************)
(* SubscriptionManager of packages/realtime/src/subscription-manager.ts.   *)
(*                                                                         *)
(* One manager instance.  Every async method call is a task; a task is     *)
(* suspended at one of the awaits of the code and each action runs the     *)
(* code from one await (or from the call) to the next await or to the      *)
(* return, as JavaScript's run-to-completion scheduling does.              *)
(***************************************************************************)
EXTENDS Integers, Sequences, FiniteSets, Bags

\* ---------------------------------------------------------------- bounds
MaxCalls == 3      \* Spec: public method calls made after construction
LifeMsgs == 1      \* Spec: messages the streams deliver in one run
LogCalls == 2      \* SpecLog: public method calls made after construction
MaxMsgs == 3       \* SpecLog: messages the streams deliver in one run
MaxCap == 2        \* SpecLog: largest maxMessages option tried

\* ------------------------------------------------------------- constants
DefaultMaxMessages == 1000

Null == 0                      \* null stream / reader reference
NoToken == "null"
NoTopic == "undefined"
FilterTopics == {NoTopic, "", "x"}
MsgTopics == {"x", "y"}

Idle == "idle"
Connecting == "connecting"
Active == "active"
Error == "error"
Closed == "closed"
SubscriptionState == {Idle, Connecting, Active, Error, Closed}

VARIABLES
  token,         \* this.token
  refreshToken,  \* TRUE iff options.refreshToken was given
  topic,         \* this.topic
  state,         \* this.state
  messages,      \* this.messages
  maxMessages,   \* this.maxMessages
  subscription,  \* this.subscription : Null or a stream id
  reader,        \* this.reader : Null or the id of the stream it reads
  isRunning,     \* this.isRunning
  throwing,      \* TRUE iff the caller's handlers throw when called
  tasks,         \* bag of suspended async calls
  booting,       \* TRUE while the constructor has still to call start()
  cancelled,     \* streams still referenced whose cancel() succeeded
  nread,         \* messages delivered so far (the arrival number)
  calls,         \* public method calls made so far
  accepted,      \* history: messages appended since the log was last reset
  mark,          \* history: arrival number of the newest message restart() removed
  ev             \* history: what the last step did (callbacks, returns)

vars == <<token, refreshToken, topic, state, messages, maxMessages,
          subscription, reader, isRunning, throwing, tasks, booting, cancelled,
          nread, calls, accepted, mark, ev>>

\* ------------------------------------------------------------ helpers
\* JavaScript truthiness of a string-or-undefined value (line 251: this.topic &&)
Truthy(tp) == tp # NoTopic /\ tp # ""

\* options.maxMessages || 1000
MaxMessagesOption(n) == IF n = 0 THEN DefaultMaxMessages ELSE n

\* Array.prototype.slice(-n) for n > 0: the last n elements
SliceLast(s, n) == IF Len(s) <= n THEN s ELSE SubSeq(s, Len(s) - n + 1, Len(s))

\* lines 256-263: push, then trim to the last maxMessages
PushTrimKeepsOldest(log, m, cap) ==
  LET pushed == Append(log, m)
  IN  IF Len(pushed) > cap THEN SubSeq(pushed, 1, cap) ELSE pushed
PushTrim(log, m, cap) ==
  LET pushed == Append(log, m)
  IN  IF Len(pushed) > cap THEN SliceLast(pushed, cap) ELSE pushed

\* getMessages(): a copy of the log
getMessages == messages

\* getLatestMessage()
getLatestMessage == IF Len(messages) = 0 THEN "null" ELSE messages[Len(messages)]

\* isActive()
isActive == isRunning /\ state = Active

\* A suspended call: pc is the await it waits at; after is what follows the
\* stop() it is running ("return" for a public stop(), "start" inside
\* restart(), lines 175-176); rd is the stream its pending read is on.
Task(pc, after, rd) == [pc |-> pc, after |-> after, rd |-> rd]
Without(t) == tasks (-) SetToBag({t})
With(base, t) == base (+) SetToBag({t})
ReadLoops(bag) == {t \in BagToSet(bag) : t.pc = "awaitRead"}

\* The stream ids some reference still reaches
Referenced(bag, rdr, sub) == {t.rd : t \in ReadLoops(bag)} \cup {rdr, sub}

\* The id of a stream object just created: one no reference holds
FreshStream == CHOOSE i \in 1..(BagCardinality(tasks) + 3) :
                 i \notin Referenced(tasks, reader, subscription)

\* lines 288-291: what onStateChange is called with when updateState() has
\* assigned newState
OnStateChangeStale(newState) == Idle
OnStateChange(newState) == newState

\* The record of one step.  kind: what ran; st: the argument onStateChange got
\* ("none": not called); err: the argument onError got; chg, stp: calls of
\* onChange, onStop; mt: topic of the message read; ret: how the public call
\* that ended in this step ended ("none": none ended).
Ev(kind, st, err, chg, stp, mt, ret) ==
  [kind |-> kind, st |-> IF st = "none" THEN "none" ELSE OnStateChange(st),
   err |-> err, chg |-> chg, stp |-> stp, mt |-> mt, ret |-> ret]
NoEv == Ev("init", "none", "none", 0, 0, "none", "none")

\* ------------------------------------------------- callbacks and errors
\* lines 266-273: onChange runs inside try/catch; the value is whether an
\* exception of the handler leaves that try/catch.
OnChangeEscapesRethrown(thr) == thr
OnChangeEscapes(thr) == FALSE

\* lines 298-299: the state handleError() leaves, from state cur
HandleErrorKeeps(cur) == cur
HandleError(cur) == Error

\* lines 132-134, 280-284 and 298-307: the calls left suspended when
\* handleError() has returned and the failed call has resolved; base is the
\* others.  Nothing is started again.
ErrorPathRetries(base) == With(base, Task("awaitSub", "return", Null))
ErrorPath(base) == base

\* lines 276-279: the state after the loop ended without an exception
CleanEndAsError(running, cur) == IF running THEN Error ELSE cur
CleanEnd(running, cur) == IF running THEN Closed ELSE cur

\* ------------------------------------------------------------- start()
\* line 104: start() finds the manager running
AlreadyRunningIgnored(running) == FALSE
AlreadyRunning(running) == running

\* line 118: no token is held when the stream is about to be opened
MissingTokenIgnored(tok) == FALSE
MissingToken(tok) == tok = NoToken

\* lines 103-126: from the call to the first await, or to the return.
\* Sets isRunning', state', tasks', ev'.
StartBody(base) ==
  IF AlreadyRunning(isRunning)
  THEN /\ tasks' = base
       /\ ev' = Ev("startNoop", "none", "none", 0, 0, "none", "ok")
       /\ UNCHANGED <<isRunning, state>>
  ELSE /\ isRunning' = TRUE
       /\ IF token = NoToken /\ refreshToken
          THEN /\ state' = Connecting
               /\ tasks' = With(base, Task("awaitToken", "return", Null))
               /\ ev' = Ev("startCall", Connecting, "none", 0, 0, "none", "none")
          ELSE IF MissingToken(token)
          THEN /\ state' = HandleError(state)
               /\ tasks' = ErrorPath(base)
               /\ ev' = Ev("startFail", state', "noToken", 0, 0, "none", "ok")
          ELSE /\ state' = Connecting
               /\ tasks' = With(base, Task("awaitSub", "return", Null))
               /\ ev' = Ev("startCall", Connecting, "none", 0, 0, "none", "none")

\* lines 85-98: the constructor with autoStart calls start()
Constructor ==
  /\ booting
  /\ booting' = FALSE
  /\ StartBody(tasks)
  /\ UNCHANGED <<token, refreshToken, topic, messages, maxMessages, subscription,
                 reader, throwing, cancelled, nread, calls, accepted, mark>>

CallStart(lim) ==
  /\ ~booting /\ calls < lim
  /\ calls' = calls + 1
  /\ StartBody(tasks)
  /\ UNCHANGED <<token, refreshToken, topic, messages, maxMessages, subscription,
                 reader, throwing, booting, cancelled, nread, accepted, mark>>

\* line 115: the credential provider settles
TokenResolve ==
  /\ ~booting
  /\ \E t \in BagToSet(tasks), ok \in BOOLEAN :
       /\ t.pc = "awaitToken"
       /\ IF ok
          THEN /\ token' = "t1"
               /\ state' = Connecting
               /\ tasks' = With(Without(t), Task("awaitSub", "return", Null))
               /\ ev' = Ev("token", Connecting, "none", 0, 0, "none", "none")
          ELSE /\ token' = token
               /\ state' = HandleError(state)
               /\ tasks' = ErrorPath(Without(t))
               /\ ev' = Ev("startFail", state', "tokenRejected", 0, 0, "none", "ok")
  /\ UNCHANGED <<refreshToken, topic, messages, maxMessages, subscription, reader,
                 isRunning, throwing, booting, cancelled, nread, calls, accepted, mark>>

\* lines 126-131 and 239-244: subscribe() settles, getReader(), Active, and the
\* read loop up to its first read
SubResolve ==
  /\ ~booting
  /\ \E t \in BagToSet(tasks), res \in {"ok", "subscribeFailed", "getReaderFailed"} :
       /\ t.pc = "awaitSub"
       /\ CASE res = "ok" ->
                 /\ subscription' = FreshStream
                 /\ reader' = FreshStream
                 /\ state' = Active
                 /\ IF isRunning
                    THEN /\ tasks' = With(Without(t), Task("awaitRead", "return", FreshStream))
                         /\ ev' = Ev("active", Active, "none", 0, 0, "none", "none")
                    ELSE \* the loop condition at 243 fails at once; 277 too
                         /\ tasks' = Without(t)
                         /\ ev' = Ev("active", Active, "none", 0, 0, "none", "ok")
            [] res = "getReaderFailed" ->
                 /\ subscription' = FreshStream
                 /\ reader' = reader
                 /\ state' = HandleError(state)
                 /\ tasks' = ErrorPath(Without(t))
                 /\ ev' = Ev("startFail", state', res, 0, 0, "none", "ok")
            [] res = "subscribeFailed" ->
                 /\ state' = HandleError(state)
                 /\ tasks' = ErrorPath(Without(t))
                 /\ ev' = Ev("startFail", state', res, 0, 0, "none", "ok")
                 /\ UNCHANGED <<subscription, reader>>
       /\ cancelled' = cancelled \cap Referenced(tasks', reader', subscription')
  /\ UNCHANGED <<token, refreshToken, topic, messages, maxMessages, isRunning,
                 throwing, booting, nread, calls, accepted, mark>>

\* ---------------------------------------------------------- readLoop()
\* What reader.read() on stream rd can settle with: a cancelled stream is
\* closed and reads of it report done; an open one delivers a message, ends
\* or fails.
ReadOutcomes(rd, lim) ==
  IF rd \in cancelled THEN {"done"}
  ELSE {"done", "throw"} \cup (IF nread < lim THEN MsgTopics ELSE {})

\* line 251: the message is filtered out
Filtered(tp, mtopic) == Truthy(tp) /\ mtopic # tp

\* lines 243-244 after an iteration: the loop condition and the next read().
\* Sets state', tasks', ev'.
NextRead(base, kind, chg, mt) ==
  IF reader = Null
  THEN \* this.reader.read() on null: TypeError, caught at 280, isRunning holds
       /\ state' = HandleError(state)
       /\ tasks' = ErrorPath(base)
       /\ ev' = Ev(kind, state', "nullReader", chg, 0, mt, "ok")
  ELSE /\ state' = state
       /\ tasks' = With(base, Task("awaitRead", "return", reader))
       /\ ev' = Ev(kind, "none", "none", chg, 0, mt, "none")

\* line 281: the catch of readLoop() takes the error path
CatchReportsAlways(running) == TRUE
CatchReports(running) == running

\* lines 244-284: one read settles; the loop runs to its next read or ends
ReadResolve(lim) ==
  /\ ~booting
  /\ \E t \in BagToSet(tasks) :
       /\ t.pc = "awaitRead"
       /\ \E res \in ReadOutcomes(t.rd, lim) :
            CASE res = "throw" ->
                   \* catch at 280
                   /\ IF CatchReports(isRunning)
                      THEN /\ state' = HandleError(state)
                           /\ tasks' = ErrorPath(Without(t))
                           /\ ev' = Ev("readErr", state', "readFailed", 0, 0, "none", "ok")
                      ELSE /\ state' = state
                           /\ tasks' = Without(t)
                           /\ ev' = Ev("readErrQuiet", "none", "none", 0, 0, "none", "ok")
                   /\ UNCHANGED <<messages, accepted, nread>>
              [] res = "done" ->
                   \* break at 247, then 277-279
                   /\ state' = CleanEnd(isRunning, state)
                   /\ ev' = IF isRunning
                            THEN Ev("readDone", state', "none", 0, 0, "none", "ok")
                            ELSE Ev("readStopped", "none", "none", 0, 0, "none", "ok")
                   /\ tasks' = Without(t)
                   /\ UNCHANGED <<messages, accepted, nread>>
              [] res \in MsgTopics ->
                   LET m == [topic |-> res, v |-> nread + 1] IN
                   /\ nread' = nread + 1
                   /\ IF ~isRunning
                      THEN \* break at 247; 277 does not hold
                           /\ state' = state
                           /\ tasks' = Without(t)
                           /\ ev' = Ev("readStopped", "none", "none", 0, 0, res, "ok")
                           /\ UNCHANGED <<messages, accepted>>
                      ELSE IF Filtered(topic, res)
                      THEN \* continue at 252
                           /\ NextRead(Without(t), "filtered", 0, res)
                           /\ UNCHANGED <<messages, accepted>>
                      ELSE /\ messages' = PushTrim(messages, m, maxMessages)
                           /\ accepted' = Append(accepted, m)
                           /\ IF OnChangeEscapes(throwing)
                              THEN \* the handler's exception reaches the catch at 280
                                   /\ state' = HandleError(state)
                                   /\ tasks' = ErrorPath(Without(t))
                                   /\ ev' = Ev("accepted", state', "handlerError", 1, 0, res, "ok")
                              ELSE NextRead(Without(t), "accepted", 1, res)
  /\ cancelled' = cancelled \cap Referenced(tasks', reader, subscription)
  /\ UNCHANGED <<token, refreshToken, topic, maxMessages, subscription, reader,
                 isRunning, throwing, booting, calls, mark>>

\* -------------------------------------------------------------- stop()
\* How stop() returns to whoever called it: a public stop() call ends; inside
\* restart() the caller resumes after its await (line 174).
StopReturns(base, after) ==
  IF after = "return" THEN base ELSE With(base, Task("awaitStop", after, Null))
StopRet(after) == IF after = "return" THEN "ok" ELSE "none"

\* lines 155-164: updateState(Closed), onStop, return.  Sets state', tasks', ev'.
StopTail(base, after) ==
  /\ state' = Closed
  /\ tasks' = StopReturns(base, after)
  /\ ev' = Ev("stopRet", Closed, "none", 0, 1, "none", StopRet(after))

\* lines 165-167: the catch of stop().  Sets state', tasks', ev'.
StopCatch(base, after, kind) ==
  /\ state' = state
  /\ tasks' = StopReturns(base, after)
  /\ ev' = Ev(kind, "none", "none", 0, 0, "none", StopRet(after))

\* lines 150-151: cancel the stream if one is held, else finish.
\* Sets state', tasks', ev' and gives the stream cancelled; sub is this.subscription.
StopStream(base, after, sub, ok) ==
  IF sub # Null
  THEN /\ tasks' = With(base, Task(IF ok THEN "cancelStream" ELSE "cancelStreamFail", after, Null))
       /\ state' = state
       /\ ev' = Ev("stopStep", "none", "none", 0, 0, "none", "none")
  ELSE StopTail(base, after)

\* line 141: the running flag as stop() leaves it
StopKeepsFlag(running) == running
StopClearsFlag(running) == FALSE

\* lines 140-155: from the call to the first await, or to the return.
\* Sets isRunning', state', tasks', cancelled', ev'.
StopBody(base, after) ==
  /\ isRunning' = StopClearsFlag(isRunning)
  /\ \E ok \in BOOLEAN :
       IF reader # Null
       THEN /\ cancelled' = IF ok THEN cancelled \cup {reader} ELSE cancelled
            /\ tasks' = With(base, Task(IF ok THEN "cancelReader" ELSE "cancelReaderFail", after, Null))
            /\ state' = state
            /\ ev' = Ev("stopStep", "none", "none", 0, 0, "none", "none")
       ELSE /\ cancelled' = IF ok /\ subscription \in Referenced(base, Null, Null)
                            THEN cancelled \cup {subscription} ELSE cancelled
            /\ subscription = Null => ok
            /\ StopStream(base, after, subscription, ok)

CallStop(lim) ==
  /\ ~booting /\ calls < lim
  /\ calls' = calls + 1
  /\ StopBody(tasks, "return")
  /\ UNCHANGED <<token, refreshToken, topic, messages, maxMessages, subscription,
                 reader, throwing, booting, nread, accepted, mark>>

\* lines 145-151: reader.cancel() settles
CancelReaderResolve ==
  /\ ~booting
  /\ \E t \in BagToSet(tasks), ok \in BOOLEAN :
       /\ t.pc \in {"cancelReader", "cancelReaderFail"}
       /\ IF t.pc = "cancelReaderFail" \/ reader = Null
          THEN \* the rejection, or releaseLock() on null, reaches the catch at 165
               /\ ok
               /\ StopCatch(Without(t), t.after,
                            IF t.pc = "cancelReaderFail" THEN "stopCancelFail"
                            ELSE "stopNullReader")
               /\ UNCHANGED <<reader, cancelled>>
          ELSE /\ reader' = Null
               /\ subscription = Null => ok
               /\ StopStream(Without(t), t.after, subscription, ok)
               /\ cancelled' = (IF ok /\ subscription # Null
                                THEN cancelled \cup {subscription} ELSE cancelled)
                               \cap Referenced(tasks', Null, Null)
  /\ UNCHANGED <<token, refreshToken, topic, messages, maxMessages, subscription,
                 isRunning, throwing, booting, nread, calls, accepted, mark>>

\* lines 151-164: subscription.cancel() settles
CancelStreamResolve ==
  /\ ~booting
  /\ \E t \in BagToSet(tasks) :
       /\ t.pc \in {"cancelStream", "cancelStreamFail"}
       /\ IF t.pc = "cancelStreamFail"
          THEN /\ StopCatch(Without(t), t.after, "stopCancelFail")
               /\ UNCHANGED subscription
          ELSE /\ subscription' = Null
               /\ StopTail(Without(t), t.after)
  /\ UNCHANGED <<token, refreshToken, topic, messages, maxMessages, reader,
                 isRunning, throwing, booting, cancelled, nread, calls, accepted, mark>>

\* ----------------------------------------------------------- restart()
\* line 174
CallRestart(lim) ==
  /\ ~booting /\ calls < lim
  /\ calls' = calls + 1
  /\ StopBody(tasks, "start")
  /\ UNCHANGED <<token, refreshToken, topic, messages, maxMessages, subscription,
                 reader, throwing, booting, nread, accepted, mark>>

\* line 175: what restart() does to the log once stop() has returned
RestartLogKept(log) == log
RestartLog(log) == <<>>

\* lines 175-176: restart() resumes after stop()
RestartResume ==
  /\ ~booting
  /\ \E t \in BagToSet(tasks) :
       /\ t.pc = "awaitStop"
       /\ messages' = RestartLog(messages)
       /\ accepted' = RestartLog(accepted)
       /\ mark' = IF messages = <<>> THEN mark ELSE messages[Len(messages)].v
       /\ StartBody(Without(t))
  /\ UNCHANGED <<token, refreshToken, topic, maxMessages, subscription, reader,
                 throwing, booting, cancelled, nread, calls>>

\* --------------------------------------------------- refreshAndRestart()
\* line 183: refreshAndRestart() finds no credential provider
NoProviderIgnored(refresh) == FALSE
NoProvider(refresh) == ~refresh

\* lines 182-188
CallRefreshAndRestart(lim) ==
  /\ ~booting /\ calls < lim
  /\ calls' = calls + 1
  /\ IF NoProvider(refreshToken)
     THEN /\ ev' = Ev("refreshThrow", "none", "none", 0, 0, "none", "throw")
          /\ tasks' = tasks
     ELSE /\ ev' = Ev("refreshCall", "none", "none", 0, 0, "none", "none")
          /\ tasks' = With(tasks, Task("awaitRefresh", "start", Null))
  /\ UNCHANGED <<token, refreshToken, topic, state, messages, maxMessages,
                 subscription, reader, isRunning, throwing, booting, cancelled,
                 nread, accepted, mark>>

\* lines 188-192: the credential provider settles
RefreshResolve ==
  /\ ~booting
  /\ \E t \in BagToSet(tasks), ok \in BOOLEAN :
       /\ t.pc = "awaitRefresh"
       /\ IF ok
          THEN /\ token' = "t1"
               /\ StopBody(Without(t), "start")
          ELSE /\ token' = token
               /\ state' = HandleError(state)
               /\ tasks' = ErrorPath(Without(t))
               /\ ev' = Ev("refreshFail", state', "tokenRejected", 0, 0, "none", "ok")
               /\ UNCHANGED <<isRunning, cancelled>>
  /\ UNCHANGED <<refreshToken, topic, messages, maxMessages, subscription, reader,
                 throwing, booting, nread, calls, accepted, mark>>

\* ----------------------------------------------------------- accessors
\* lines 228-230
SetTopic(lim) ==
  /\ ~booting /\ calls < lim
  /\ calls' = calls + 1
  /\ \E tp \in FilterTopics :
       /\ topic' = tp
       /\ ev' = Ev("setTopic", "none", "none", 0, 0, "none", "ok")
  /\ UNCHANGED <<token, refreshToken, state, messages, maxMessages, subscription,
                 reader, isRunning, throwing, tasks, booting, cancelled, nread,
                 accepted, mark>>

\* lines 221-223
ClearMessages(lim) ==
  /\ ~booting /\ calls < lim
  /\ calls' = calls + 1
  /\ messages' = <<>>
  /\ accepted' = <<>>
  /\ ev' = Ev("clearMessages", "none", "none", 0, 0, "none", "ok")
  /\ UNCHANGED <<token, refreshToken, topic, state, maxMessages, subscription,
                 reader, isRunning, throwing, tasks, booting, cancelled, nread, mark>>

\* line 206: getMessages() returns [...this.messages], a new array; line 269:
\* onChange is called with this.messages itself.  The value is whether the
\* array the caller got that way is the log.
SharesLog(via) == via = "onChange"

\* The caller writes to an array the manager handed it (arr.pop()).  The array
\* of the latest onChange call is this.messages as long as the log has not
\* been replaced by [] since (lines 175, 222); the trim at line 262 replaces
\* it before onChange gets it.
CallerWrites(lim) ==
  /\ ~booting /\ calls < lim
  /\ calls' = calls + 1
  /\ \E via \in {"getMessages", "onChange"} :
       /\ via = "onChange" => accepted # <<>>
       /\ messages' = IF SharesLog(via) /\ messages # <<>>
                      THEN SubSeq(messages, 1, Len(messages) - 1)
                      ELSE messages
       /\ ev' = Ev("callerWrite", "none", "none", 0, 0, "none", "ok")
  /\ UNCHANGED <<token, refreshToken, topic, state, maxMessages, subscription,
                 reader, isRunning, throwing, tasks, booting, cancelled, nread,
                 accepted, mark>>

\* ------------------------------------------------------- specification
\* lines 68-93: the fields after the constructor's assignments, for the
\* options given; booting is options.autoStart !== false
Fields(tok, refresh, tp, cap, autoStart, thr) ==
  /\ token = tok
  /\ refreshToken = refresh
  /\ topic = tp
  /\ state = Idle
  /\ messages = <<>>
  /\ maxMessages = MaxMessagesOption(cap)
  /\ subscription = Null
  /\ reader = Null
  /\ isRunning = FALSE
  /\ throwing = thr
  /\ tasks = EmptyBag
  /\ booting = autoStart
  /\ cancelled = {}
  /\ nread = 0
  /\ calls = 0
  /\ accepted = <<>>
  /\ mark = 0
  /\ ev = NoEv

\* The lifecycle: every way of configuring the credential, handlers that
\* throw or return, any interleaving of the lifecycle calls with the settling
\* of the awaits.  The manager is built with autoStart: false and the caller
\* calls start(), which is what the constructor does otherwise (line 96).
\* setTopic and clearMessages touch only topic and messages, which no
\* lifecycle step reads before a message is read; they are exercised in
\* SpecLog.  The order in which settled awaits resume is left open.
Init ==
  \E tok \in {NoToken, "t0"}, refresh \in BOOLEAN, thr \in BOOLEAN :
     Fields(tok, refresh, NoTopic, 1, FALSE, thr)

Next ==
  \/ CallStart(MaxCalls)
  \/ CallStop(MaxCalls)
  \/ CallRestart(MaxCalls)
  \/ CallRefreshAndRestart(MaxCalls)
  \/ TokenResolve
  \/ SubResolve
  \/ ReadResolve(LifeMsgs)
  \/ CancelReaderResolve
  \/ CancelStreamResolve
  \/ RestartResume
  \/ RefreshResolve

Spec == Init /\ [][Next]_vars

\* The message log: an auto-started manager holding a token, every topic
\* filter and capacity, with setTopic and clearMessages.
InitLog ==
  \E tp \in FilterTopics, cap \in 1..MaxCap, thr \in BOOLEAN :
     Fields("t0", FALSE, tp, cap, TRUE, thr)

NextLog ==
  \/ Constructor
  \/ SubResolve
  \/ ReadResolve(MaxMsgs)
  \/ SetTopic(LogCalls)
  \/ ClearMessages(LogCalls)

SpecLog == InitLog /\ [][NextLog]_vars

\* The message log with a caller that writes to the arrays it is handed.
NextShare ==
  \/ Constructor
  \/ SubResolve
  \/ ReadResolve(MaxMsgs)
  \/ CallerWrites(LogCalls)

SpecShare == InitLog /\ [][NextShare]_vars

\* Recovery: the caller calls start(); the provider, the stream source and
\* the reads may fail.  When the state is Error the caller calls restart(),
\* and from that call on the provider and the stream source succeed and reads
\* do not fail (the stream may still end).  Cancelling may fail throughout.
Healed == calls > 1

NextRecover ==
  \/ calls = 0 /\ CallStart(MaxCalls)
  \/ calls = 1 /\ state = Error /\ CallRestart(MaxCalls)
  \/ TokenResolve /\ (Healed => ev'.kind = "token")
  \/ SubResolve /\ (Healed => ev'.kind = "active")
  \/ ReadResolve(LifeMsgs) /\ (Healed => ev'.kind \notin {"readErr", "readErrQuiet"})
  \/ CancelReaderResolve
  \/ CancelStreamResolve
  \/ RestartResume

\* A promise that has settled resumes the call awaiting it: each await of the
\* code is weakly fair.
SpecRecover ==
  /\ Init /\ [][NextRecover]_vars
  /\ WF_vars(TokenResolve /\ (Healed => ev'.kind = "token"))
  /\ WF_vars(SubResolve /\ (Healed => ev'.kind = "active"))
  /\ WF_vars(ReadResolve(LifeMsgs) /\ (Healed => ev'.kind \notin {"readErr", "readErrQuiet"}))
  /\ WF_vars(CancelReaderResolve)
  /\ WF_vars(CancelStreamResolve)
  /\ WF_vars(RestartResume)

\* Stopping: the caller calls start() and stop() in any order, and its last
\* call is a stop() on an Active manager; nothing is called after it.
LastCall == calls = MaxCalls - 1
Stopped == calls = MaxCalls

NextStop ==
  \/ ~LastCall /\ CallStart(MaxCalls - 1)
  \/ (LastCall => state = Active) /\ CallStop(MaxCalls)
  \/ TokenResolve
  \/ SubResolve
  \/ ReadResolve(LifeMsgs)
  \/ CancelReaderResolve
  \/ CancelStreamResolve

\* Every settled await resumes its call, and every pending read settles.
SpecStop ==
  /\ Init /\ [][NextStop]_vars
  /\ WF_vars(TokenResolve)
  /\ WF_vars(SubResolve)
  /\ WF_vars(ReadResolve(LifeMsgs))
  /\ WF_vars(CancelReaderResolve)
  /\ WF_vars(CancelStreamResolve)

\* =============================================================== claims
Min(a, b) == IF a < b THEN a ELSE b
\* The n most recent entries of a history, oldest first
MostRecent(h, n) ==
  [i \in 1..Min(Len(h), n) |-> h[Len(h) - Min(Len(h), n) + i]]

\* C1: getMessages() holds the accepted messages in arrival order, never more
\* than maxMessages of them, and after an eviction exactly the maxMessages most
\* recently accepted ones.
C1_LogIsMostRecentAccepted ==
  /\ Len(getMessages) <= maxMessages
  /\ getMessages = MostRecent(accepted, maxMessages)
  /\ \A i, j \in 1..Len(getMessages) : i < j => getMessages[i].v < getMessages[j].v
C1_Evicted ==
  /\ ev.kind = "accepted"
  /\ Len(accepted) > maxMessages
  /\ Len(getMessages) >= 2

\* C2: while a topic filter T is set, a message read with another topic is
\* neither appended nor passed to onChange and leaves the log as it was; a
\* message with topic T is appended and dispatched.
C2_FilterExcludesOtherTopics ==
  [][(ev'.mt # "none" /\ topic # NoTopic /\ isRunning) =>
       IF ev'.mt # topic
       THEN messages' = messages /\ ev'.chg = 0
       ELSE /\ ev'.chg = 1
            /\ messages' # <<>>
            /\ messages'[Len(messages')] = [topic |-> ev'.mt, v |-> nread']]_vars

\* C3: a public stop() that has returned leaves the state Closed, isActive()
\* false and the stream and reader references cleared.
C3_StopLeavesClosed ==
  (ev.ret = "ok" /\ ev.kind \in {"stopRet", "stopCancelFail", "stopNullReader"}) =>
    (state = Closed /\ ~isActive /\ subscription = Null /\ reader = Null)

\* C4: when cancelling the reader or the stream throws during stop(), stop()
\* still clears both references, still transitions to Closed and still calls
\* onStop.
C4_StopReleasesWhenCancelThrows ==
  ev.kind = "stopCancelFail" =>
    (reader = Null /\ subscription = Null /\ state = Closed /\ ev.stp = 1)

\* C5: no message that restart() found in the log is in getMessages() once
\* restart() has resumed after its stop().
C5_RestartEmptiesLog ==
  \A i \in 1..Len(getMessages) : getMessages[i].v > mark
C5_RestartedWithLog ==
  /\ mark > 0
  /\ ev.kind \in {"startCall", "startNoop", "startFail"}

\* C6: a throwing handler does not stop the operation around it: after a
\* throwing onChange the message is in the log and the loop has issued its next
\* read; the error path ends in Error and the call resolves; stop() ends in
\* Closed; no call ends by throwing, bar refreshAndRestart() without provider.
C6_ThrowingHandlersIsolated ==
  throwing =>
    /\ ev.chg = 1 =>
         /\ messages # <<>>
         /\ messages[Len(messages)].v = nread
         /\ ev.err # "handlerError"
         /\ reader # Null =>
              (ev.ret = "none" /\ \E t \in ReadLoops(tasks) : t.rd = reader)
    /\ ev.err # "none" => (state = Error /\ ev.ret = "ok")
    /\ ev.stp = 1 => (state = Closed /\ ev.kind = "stopRet")
    /\ ev.ret = "throw" => ev.kind = "refreshThrow"
C6_LoopWentOnAfterThrow ==
  throwing /\ ev.chg = 1 /\ ev.ret = "none" /\ ReadLoops(tasks) # {}

\* C7: a failed acquisition in start() ends with the call resolved, the state
\* Error, onError called once with the cause and onChange not called.
C7_AcquisitionFailure ==
  ev.kind = "startFail" =>
    /\ state = Error
    /\ ev.st = Error
    /\ ev.err \in {"tokenRejected", "noToken", "subscribeFailed", "getReaderFailed"}
    /\ ev.chg = 0
    /\ ev.ret = "ok"
C7_ProviderRejected ==
  ev.kind = "startFail" /\ ev.err = "tokenRejected"

\* C8: when the stream reports done while the manager is running, the state
\* ends at Closed and onError is not called.
C8_CleanEndCloses ==
  ev.kind = "readDone" => (state = Closed /\ ev.st = Closed /\ ev.err = "none")
C8_StreamEnded ==
  ev.kind = "readDone" /\ isRunning

\* C9: in every reachable state, Active implies both references non-null and
\* isRunning.
C9_ActiveImpliesHandles ==
  state = Active => (subscription # Null /\ reader # Null /\ isRunning)

\* C10: at most one read loop is active at any time.
C10_OneReadLoop ==
  \A t \in ReadLoops(tasks) : tasks[t] = 1 /\ ReadLoops(tasks) = {t}

\* The step recorded in e ran start() from its call: by the caller, by the
\* constructor or by restart() (line 176)
StartInvoked(e) ==
  e.kind \in {"startCall", "startNoop"} \/ (e.kind = "startFail" /\ e.err = "noToken")

\* C11: whenever start() is invoked in Idle, Closed or Error with a token or a
\* provider to get one, the state is Connecting, and onStateChange has been
\* told so, when the first acquisition is awaited.
C11_StartEntersConnecting ==
  [][(StartInvoked(ev') /\ state \in {Idle, Closed, Error}
        /\ (token # NoToken \/ refreshToken)) =>
       (state' = Connecting /\ ev'.st = Connecting)]_vars

\* C12: a step that changes the state calls onStateChange with the state it
\* leaves, and onStateChange is never called with anything but the state just
\* assigned; so the arguments of the hook, in order, are the states the
\* manager went through.
C12_HookFollowsState ==
  [][/\ state' # state => ev'.st = state'
     /\ ev'.st # "none" => ev'.st = state']_vars
C12_ConnectingAgain ==
  ev.kind = "token" /\ ev.st = Connecting /\ state = Connecting

\* C13: refreshAndRestart() called on a manager without a credential provider
\* throws to its caller; state, token, log, running flag, references and the
\* suspended calls are as before and no callback was called.
C13_RefreshWithoutProvider ==
  [][(ev'.kind \in {"refreshThrow", "refreshCall"} /\ ~refreshToken) =>
       /\ ev'.ret = "throw"
       /\ ev'.st = "none" /\ ev'.err = "none" /\ ev'.stp = 0 /\ ev'.chg = 0
       /\ UNCHANGED <<state, token, messages, isRunning, subscription, reader,
                      tasks>>]_vars
C13_ThrownWhileActive ==
  ev.kind = "refreshThrow" /\ state = Active /\ messages # <<>> /\ reader # Null

\* C14: onStop is called when stop() has closed the subscription, and when an
\* acquisition failure or a read failure has put the manager in Error.
C14_OnStopWheneverStopped ==
  /\ ev.kind = "stopRet" => ev.stp = 1
  /\ (ev.kind \in {"startFail", "readErr"} /\ ev.st = Error) => ev.stp = 1

\* C15: a write by the caller to an array it got from getMessages() or from
\* onChange leaves what getMessages() and getLatestMessage() return as it was.
C15_NoLiveArrays ==
  [][ev'.kind = "callerWrite" =>
       (getMessages' = getMessages /\ getLatestMessage' = getLatestMessage)]_vars

\* The awaits at which a call waits for the credential provider (lines 115,
\* 188) or the stream source (line 126)
AcquirePcs == {"awaitToken", "awaitSub", "awaitRefresh"}
\* This step has called the credential provider or the stream source
Acquires ==
  \E t \in BagToSet(tasks') :
     t.pc \in AcquirePcs /\ CopiesIn(t, tasks') > CopiesIn(t, tasks)
\* A start(), restart() or refreshAndRestart() the caller made has yet to return
CallInFlight(bag) ==
  \E t \in BagToSet(bag) : t.pc \in AcquirePcs \/ t.after = "start"

\* C16: the step that puts the manager in Error or Closed calls neither the
\* credential provider nor the stream source, and while the state is Error or
\* Closed and no start(), restart() or refreshAndRestart() of the caller is in
\* progress, only a step in which the caller calls start() or
\* refreshAndRestart() does.
C16_NoAutomaticRetry ==
  [][/\ ev'.st \in {Error, Closed} => ~Acquires
     /\ (state \in {Error, Closed} /\ ~CallInFlight(tasks)
           /\ ~(calls' # calls /\ ev'.kind \in {"startCall", "refreshCall"})) =>
          ~Acquires]_vars
C16_QuietAfterClosed ==
  state = Closed /\ ev.kind = "readStopped" /\ tasks = EmptyBag /\ ~isRunning

\* C17: in every reachable state, Active implies that a token is held.
C17_ActiveImpliesToken ==
  state = Active => token # NoToken
C17_ActiveWhileRefreshing ==
  /\ state = Active /\ token # NoToken
  /\ \E t \in BagToSet(tasks) : t.pc = "awaitRefresh"

\* The manager is Active on an open stream with a read loop on its reader
Streaming ==
  /\ state = Active /\ isRunning
  /\ subscription # Null /\ reader # Null /\ reader \notin cancelled
  /\ \E t \in ReadLoops(tasks) : t.rd = reader

\* C18: a restart() called in Error, with a token held or a provider to get
\* one and acquisition succeeding from then on, leads to the manager being
\* Active with a stream, a reader and a read loop on that reader.
C18_RestartRecovers ==
  ((\E t \in BagToSet(tasks) : t.after = "start") /\ (token # NoToken \/ refreshToken))
    ~> Streaming
C18_Recovered ==
  Healed /\ Streaming /\ ev.kind = "active"

\* C19: a start() the caller makes while isRunning holds returns having
\* changed neither state, token, log, references nor running flag, with no
\* callback called and neither the provider nor the stream source called.
C19_StartWhileRunningIsNoop ==
  [][(StartInvoked(ev') /\ calls' # calls /\ isRunning) =>
       /\ ev'.kind = "startNoop" /\ ev'.ret = "ok"
       /\ ev'.st = "none" /\ ev'.err = "none" /\ ev'.chg = 0 /\ ev'.stp = 0
       /\ ~Acquires
       /\ UNCHANGED <<state, token, messages, subscription, reader, isRunning,
                      tasks>>]_vars
C19_StartedTwice ==
  ev.kind = "startNoop" /\ state = Active /\ ReadLoops(tasks) # {} /\ messages # <<>>

\* C20: when a read of the stream throws, the manager goes to Error and calls
\* onError with that exception if isRunning holds at that moment; if stop()
\* has cleared the flag, the state stays and neither onError nor onStateChange
\* is called.
C20_ReadErrorOnlyWhileRunning ==
  [][ev'.kind \in {"readErr", "readErrQuiet"} =>
       IF isRunning
       THEN state' = Error /\ ev'.st = Error /\ ev'.err = "readFailed"
       ELSE state' = state /\ ev'.st = "none" /\ ev'.err = "none"]_vars
C20_FailedWhileStopping ==
  ev.kind = "readErrQuiet" /\ ~isRunning /\ state # Error

\* C21: when the provider rejects inside refreshAndRestart(), the call
\* resolves, the state is Error, onError is called once with the rejection and
\* no other callback but onStateChange(Error); stop() has not run (flag and
\* references as before, no call left suspended), the log is not cleared and
\* the token is the one held before.
C21_RefreshRejected ==
  [][ev'.kind = "refreshFail" =>
       /\ ev'.ret = "ok"
       /\ state' = Error /\ ev'.st = Error
       /\ ev'.err = "tokenRejected" /\ ev'.stp = 0 /\ ev'.chg = 0
       /\ BagCardinality(tasks') = BagCardinality(tasks) - 1
       /\ \A t \in BagToSet(tasks') : CopiesIn(t, tasks') <= CopiesIn(t, tasks)
       /\ UNCHANGED <<token, messages, isRunning, subscription, reader>>]_vars
C21_RejectedWhileStreaming ==
  /\ ev.kind = "refreshFail" /\ token = "t0" /\ messages # <<>>
  /\ reader # Null /\ isRunning

\* C22: after the caller's last call, a stop() on an Active manager, every
\* read loop ends and every suspended call (the start() awaiting the loop
\* included) returns, and no message read from then on is appended to the log
\* or passed to onChange.
C22_StopEndsLoop ==
  /\ Stopped ~> (tasks = EmptyBag)
  /\ [][(Stopped /\ ev'.mt # "none") => (messages' = messages /\ ev'.chg = 0)]_vars
C22_ReadAfterStopDropped ==
  Stopped /\ tasks = EmptyBag /\ ev.kind = "readStopped" /\ ev.mt # "none"

\* C23: a message is appended to the log and passed to onChange only while
\* the state is Active; stated here in the particular case the claim names:
\* no step that accepts a message leaves the state Error or Closed.
C23_AcceptOnlyWhileActive ==
  ev.chg = 1 => state \notin {Error, Closed}

\* C24: whenever the state is Closed or Error and no call is suspended, the
\* stream and the reader references are both null.
C24_NoHandlesWhenSettled ==
  (state \in {Closed, Error} /\ tasks = EmptyBag) =>
    (subscription = Null /\ reader = Null)

\* C25: when a stop() call has just completed with no restart() or
\* refreshAndRestart() in progress, a step that is not a call of the caller
\* leaves the state Closed and both references null, also when a start() is
\* still awaiting the provider or the stream source.
C25_StopIsFinal ==
  [][(/\ ev.kind = "stopRet" /\ ev.ret = "ok"
      /\ \A t \in BagToSet(tasks) : t.after = "return" /\ t.pc # "awaitRefresh"
      /\ calls' = calls) =>
       (state' = Closed /\ subscription' = Null /\ reader' = Null)]_vars

====
